---- MODULE Spec2Model ----
(***************************************************************************)
(* Resilient chunked uploader: the upload server (handshake, chunk upload, *)
(* finalize, cleanup job) and the browser-side upload coordinator.         *)
(*                                                                         *)
(* Server handlers are async functions: each action below is one segment   *)
(* of a handler between two awaits (the effect of the awaited query        *)
(* followed by the synchronous code up to the next await).  Requests run   *)
(* in a bounded pool of slots; a slot is reused once its request is over.  *)
(***************************************************************************)
EXTENDS Integers, Sequences, FiniteSets, Bags, TLC

(* ----------------------------- bounds --------------------------------- *)
\* Bytes per chunk.  The code uses 5 * 1024 * 1024 on both sides; the model
\* scales it down, keeping every offset computation in terms of it.
CHUNK_SIZE == 2
\* Number of session rows ever inserted (uuid values handed out): when requests
\* are served one at a time, and when two are served concurrently.
MaxSessions == 1
RaceSessions == 2
\* Largest x-chunk-index a request carries (one past the file's last chunk).
MaxIndex == 2

Slots == {1, 2}

(* ------------------------------ files --------------------------------- *)
\* Two client files: A is one full chunk and a short one, B a single short chunk.
Files == {"A", "B"}
FileSize(f) == IF f = "A" THEN CHUNK_SIZE + 1 ELSE 1
FileBytes(f) == [i \in 1..FileSize(f) |-> IF f = "A" THEN i ELSE 10 + i]

Min(a, b) == IF a < b THEN a ELSE b
Max(a, b) == IF a > b THEN a ELSE b

\* Math.ceil(file.size / CHUNK_SIZE)
TotalChunksOf(size) == (size + CHUNK_SIZE - 1) \div CHUNK_SIZE

\* file.slice(start, end): clamps both ends to the file.
Slice(bytes, start, end) ==
    LET s == Min(start, Len(bytes))
        e == Min(Max(end, s), Len(bytes))
    IN  [i \in 1..(e - s) |-> bytes[s + i]]

\* The body of the chunk request for `index` of file f.
ChunkPayload(f, index) ==
    LET start == index * CHUNK_SIZE
        end == Min(start + CHUNK_SIZE, FileSize(f))
    IN  Slice(FileBytes(f), start, end)

\* SHA-256 as an injective function of the bytes, rendered as a hex string.
Sha256Hex(bytes) == <<bytes>>

\* calculateHash: digest of a bounded prefix, "-", the file size.
PREFIX_CHUNKS == 2
CalculateHash(f) ==
    <<Slice(FileBytes(f), 0, PREFIX_CHUNKS * CHUNK_SIZE), FileSize(f)>>

NoHash == <<>>

(* ------------------------------ state --------------------------------- *)
VARIABLES
    uploads,     \* table uploads: set of rows
    chunks,      \* table chunks: bag of rows (the unique key is enforced by the insert)
    blobs,       \* uploads directory: upload id -> bytes of <id>.bin
    req,         \* slot -> the request it runs and the handler's position
    last,        \* the request answered (or abandoned) by the step just taken
    reaper,      \* the cleanup job's position
    nextId,      \* next fresh uuid
    returned     \* history: upload id -> the hash its first completing finalize answered

serverVars == <<uploads, chunks, blobs, req, last, reaper, nextId, returned>>

\* The browser's upload coordinator (App.js).
VARIABLES
    status,         \* React state `status`
    chunkStatus,    \* React state `chunkStatus`: index -> PENDING/UPLOADING/UPLOADED/ERROR
    activeUploads,  \* activeUploads.current
    chunkQueue,     \* chunkQueue.current
    abortedRef,     \* abortedRef.current
    runs,           \* calls of startUpload so far; each call runs in the closures of one render
    allDone,        \* run -> what chunkStatus.every(s => s === 'UPLOADED') is in its closures
    starting,       \* calls of startUpload still before their queue fill: [run, pc]
    inflight,       \* chunk requests awaiting their answer: [index, retryCount, run, origin]
    timers,         \* pending retry timers: [index, retryCount, delay, run, origin]
    finalizing,     \* finalize requests awaiting their answer
    finalizeCalls,  \* history: calls of finalizeUpload so far
    reported        \* history: run -> data.uploadedChunks of its handshake answer

clientVars == <<status, chunkStatus, activeUploads, chunkQueue, abortedRef, runs, allDone,
                starting, inflight, timers, finalizing, finalizeCalls, reported>>

\* The chunk planner on its own: a file of plan.size bytes cut with chunk size
\* plan.chunk, the indices sent so far and the file the server has assembled.
VARIABLES plan

vars == <<serverVars, clientVars, plan>>

UnknownId == 0

NoReq == [kind |-> "none", pc |-> "idle", uploadId |-> UnknownId, idx |-> 0,
          file |-> "A", fileHash |-> NoHash, totalSize |-> 0, totalChunks |-> 0,
          k |-> 0, fd |-> "none", hex |-> NoHash]

\* res.json / res.status(code).json of one request; code 0: no answer was sent.
NoLast == [q |-> NoReq, code |-> 0, msg |-> "", uploadId |-> UnknownId,
           uploadedChunks |-> {}, hash |-> NoHash]

Free(r) == req[r].pc = "idle"
\* A new request takes the lowest free slot.
Takes(r) == Free(r) /\ \A q \in Slots : q < r => ~Free(q)

Row(id) == CHOOSE u \in uploads : u.id = id
HasRow(id) == \E u \in uploads : u.id = id

\* Rows of the chunks table, without multiplicity.
ChunkRows == BagToSet(chunks)

\* SELECT chunk_index FROM chunks WHERE upload_id = ? AND status = "UPLOADED"
SelectUploadedChunks(id) ==
    {c.chunk_index : c \in {x \in ChunkRows : x.upload_id = id /\ x.status = "UPLOADED"}}

\* SELECT status FROM chunks WHERE upload_id = ? AND chunk_index = ?
SelectChunk(id, index) ==
    {c \in ChunkRows : c.upload_id = id /\ c.chunk_index = index}

\* SELECT COUNT(*) FROM chunks WHERE upload_id = ? AND status = "UPLOADED"
CountUploaded(id) ==
    LET rows == {c \in ChunkRows : c.upload_id = id /\ c.status = "UPLOADED"}
        RECURSIVE Sum(_)
        Sum(S) == IF S = {} THEN 0
                  ELSE LET c == CHOOSE x \in S : TRUE
                       IN  CopiesIn(c, chunks) + Sum(S \ {c})
    IN  Sum(rows)

\* A plain INSERT into a table without the unique key.
UpsertChunk_PlainInsert(bag, id, index) ==
    bag (+) SetToBag({[upload_id |-> id, chunk_index |-> index, status |-> "UPLOADED"]})

\* INSERT INTO chunks ... VALUES (?, ?, 'UPLOADED') ON DUPLICATE KEY UPDATE status = 'UPLOADED'
UpsertChunk(bag, id, index) ==
    LET row == [upload_id |-> id, chunk_index |-> index, status |-> "UPLOADED"]
        dup == {c \in BagToSet(bag) : c.upload_id = id /\ c.chunk_index = index}
    IN  IF dup = {} THEN bag (+) SetToBag({row})
        ELSE (bag (-) SetToBag(dup)) (+) SetToBag({row})

\* What a positioned write of one byte at 0-based position pos leaves in the file
\* (a write past the end leaves a hole that reads as zeros).
WriteByte(bytes, pos, b) ==
    [i \in 1..Max(Len(bytes), pos + 1) |->
        IF i = pos + 1 THEN b ELSE IF i <= Len(bytes) THEN bytes[i] ELSE 0]

(* ------------------------- the upload coordinator --------------------- *)
CONCURRENCY_LIMIT == 3
\* if (retryCount < 3)
RETRY_LIMIT == 3
\* Chunks of the file the user selected, and calls of startUpload.
ClientChunks == 4
MaxRuns == 2

Indices == 0..(ClientChunks - 1)

\* The state after handleFileChange: a file is selected, nothing has started.
ClientInit ==
    /\ status = "IDLE"
    /\ chunkStatus = <<>>
    /\ activeUploads = 0
    /\ chunkQueue = <<>>
    /\ abortedRef = FALSE
    /\ runs = 0
    /\ allDone = <<>>
    /\ starting = {}
    /\ inflight = {}
    /\ timers = {}
    /\ finalizing = 0
    /\ finalizeCalls = 0
    /\ reported = <<>>

\* chunkStatus.every(s => s === 'UPLOADED'), as the closures of a render see it.
EveryUploaded(cs) == \A i \in DOMAIN cs : cs[i] = "UPLOADED"

\* updateChunkState(index, state); an array shorter than index + 1 grows.
UpdateChunkState(cs, index, state) ==
    [i \in (DOMAIN cs) \cup {index} |-> IF i = index THEN state ELSE cs[i]]

\* Math.pow(2, retryCount) * 1000
Pow2(n) == IF n = 0 THEN 1 ELSE IF n = 1 THEN 2 ELSE IF n = 2 THEN 4 ELSE 8
BackoffDelay(retryCount) == Pow2(retryCount) * 1000

\* A loop that counts the uploads it starts in this call, not the ones running.
Dispatched_PerCall(active, queue) ==
    Min(CONCURRENCY_LIMIT, Len(queue))

\* How many chunks the while loop of processQueue takes off the queue.
Dispatched(active, queue) ==
    IF active < CONCURRENCY_LIMIT THEN Min(CONCURRENCY_LIMIT - active, Len(queue)) ELSE 0

\* The run whose handshake answer filled chunkQueue.current last.
LastFill == CHOOSE r \in DOMAIN reported : \A q \in DOMAIN reported : q <= r

\* A completion check that leaves out activeUploads.current === 0.
ProcessQueue_IgnoresActive(run, origin, aborted, active, queue, flying) ==
    IF aborted
    THEN [active |-> active, queue |-> queue, inflight |-> flying, finalize |-> FALSE]
    ELSE IF allDone[run] /\ Len(queue) = 0
    THEN [active |-> active, queue |-> queue, inflight |-> flying, finalize |-> TRUE]
    ELSE LET n == Dispatched(active, queue)
         IN  [active |-> active + n,
              queue |-> SubSeq(queue, n + 1, Len(queue)),
              inflight |-> flying \cup {[index |-> queue[i], retryCount |-> 0, run |-> run,
                                           origin |-> origin] : i \in 1..n},
              finalize |-> FALSE]

\* processQueue() called in the closures of `run`: the refs and requests it leaves.
\* (origin: the run that filled the queue the chunks are taken from.)
\* uploadChunk increments activeUploads before its first await, so the loop sees it.
ProcessQueue(run, origin, aborted, active, queue, flying) ==
    IF aborted
    THEN [active |-> active, queue |-> queue, inflight |-> flying, finalize |-> FALSE]
    ELSE IF allDone[run] /\ Len(queue) = 0 /\ active = 0
    THEN [active |-> active, queue |-> queue, inflight |-> flying, finalize |-> TRUE]
    ELSE LET n == Dispatched(active, queue)
         IN  [active |-> active + n,
              queue |-> SubSeq(queue, n + 1, Len(queue)),
              inflight |-> flying \cup {[index |-> queue[i], retryCount |-> 0, run |-> run,
                                           origin |-> origin] : i \in 1..n},
              finalize |-> FALSE]

\* The chunkStatus updates of the uploadChunk calls processQueue made.
MarkUploading(cs, before, after) ==
    [i \in (DOMAIN cs) \cup {x.index : x \in after \ before} |->
        IF \E x \in after \ before : x.index = i THEN "UPLOADING" ELSE cs[i]]

\* Apply the outcome of a processQueue call.
AfterProcessQueue(pq, cs) ==
    /\ activeUploads' = pq.active
    /\ chunkQueue' = pq.queue
    /\ inflight' = pq.inflight
    /\ chunkStatus' = cs
    /\ finalizing' = IF pq.finalize THEN finalizing + 1 ELSE finalizing
    /\ finalizeCalls' = IF pq.finalize THEN finalizeCalls + 1 ELSE finalizeCalls

\* Click on Start Upload (enabled unless status is UPLOADING or COMPLETED).
StartUpload ==
    /\ status \in {"IDLE", "FAILED"}
    /\ runs < MaxRuns
    /\ abortedRef' = FALSE
    /\ status' = "UPLOADING"
    /\ runs' = runs + 1
    /\ allDone' = (runs + 1 :> EveryUploaded(chunkStatus)) @@ allDone
    /\ starting' = starting \cup {[run |-> runs + 1, pc |-> "hash"]}
    /\ UNCHANGED <<chunkStatus, activeUploads, chunkQueue, inflight, timers, finalizing,
                   finalizeCalls>>
    /\ UNCHANGED <<serverVars, reported, plan>>

\* calculateHash resolved: the grid is reset to PENDING and the handshake is sent.
HashDone ==
    /\ \E s \in starting :
          /\ s.pc = "hash"
          /\ starting' = (starting \ {s}) \cup {[s EXCEPT !.pc = "handshake"]}
    /\ chunkStatus' = [i \in Indices |-> "PENDING"]
    /\ UNCHANGED <<status, activeUploads, chunkQueue, abortedRef, runs, allDone, inflight,
                   timers, finalizing, finalizeCalls>>
    /\ UNCHANGED <<serverVars, reported, plan>>

\* A queue fill that does not skip the uploaded indices.
HandshakeOk_NoSkip ==
    /\ \E s \in starting, uploaded \in SUBSET Indices :
          /\ s.pc = "handshake"
          /\ starting' = starting \ {s}
          /\ LET initialStatus == [i \in Indices |->
                                     IF i \in uploaded THEN "UPLOADED" ELSE "PENDING"]
                 cs == IF uploaded # {} THEN initialStatus ELSE chunkStatus
                 RECURSIVE Fill(_)
                 Fill(i) == IF i >= ClientChunks THEN <<>>
                            ELSE <<i>> \o Fill(i + 1)
                 pq == ProcessQueue(s.run, s.run, abortedRef, activeUploads, Fill(0), inflight)
             IN  /\ AfterProcessQueue(pq, MarkUploading(cs, inflight, pq.inflight))
                 /\ reported' = (s.run :> uploaded) @@ reported
    /\ UNCHANGED <<status, abortedRef, runs, allDone, timers>>
    /\ UNCHANGED <<serverVars, plan>>

\* The handshake answers with the uploaded indices: fill the queue with the
\* others and call processQueue.
HandshakeOk ==
    /\ \E s \in starting, uploaded \in SUBSET Indices :
          /\ s.pc = "handshake"
          /\ starting' = starting \ {s}
          /\ LET initialStatus == [i \in Indices |->
                                     IF i \in uploaded THEN "UPLOADED" ELSE "PENDING"]
                 cs == IF uploaded # {} THEN initialStatus ELSE chunkStatus
                 RECURSIVE Fill(_)
                 Fill(i) == IF i >= ClientChunks THEN <<>>
                            ELSE IF initialStatus[i] # "UPLOADED" THEN <<i>> \o Fill(i + 1)
                            ELSE Fill(i + 1)
                 pq == ProcessQueue(s.run, s.run, abortedRef, activeUploads, Fill(0), inflight)
             IN  /\ AfterProcessQueue(pq, MarkUploading(cs, inflight, pq.inflight))
                 /\ reported' = (s.run :> uploaded) @@ reported
    /\ UNCHANGED <<status, abortedRef, runs, allDone, timers>>
    /\ UNCHANGED <<serverVars, plan>>

\* The handshake request fails: catch block of startUpload.
HandshakeErr ==
    /\ \E s \in starting :
          /\ s.pc = "handshake"
          /\ starting' = starting \ {s}
    /\ status' = "FAILED"
    /\ UNCHANGED <<chunkStatus, activeUploads, chunkQueue, abortedRef, runs, allDone, inflight,
                   timers, finalizing, finalizeCalls>>
    /\ UNCHANGED <<serverVars, reported, plan>>

\* A success branch without activeUploads.current--.
ChunkOk_NoRelease ==
    /\ \E x \in inflight :
          LET cs == UpdateChunkState(chunkStatus, x.index, "UPLOADED")
              pq == ProcessQueue(x.run, LastFill, abortedRef, activeUploads, chunkQueue,
                                 inflight \ {x})
          IN  AfterProcessQueue(pq, MarkUploading(cs, inflight \ {x}, pq.inflight))
    /\ UNCHANGED <<status, abortedRef, runs, allDone, starting, timers>>
    /\ UNCHANGED <<serverVars, reported, plan>>

\* The chunk request resolved: mark it, release the slot, call processQueue.
ChunkOk ==
    /\ \E x \in inflight :
          LET cs == UpdateChunkState(chunkStatus, x.index, "UPLOADED")
              pq == ProcessQueue(x.run, LastFill, abortedRef, activeUploads - 1, chunkQueue,
                                 inflight \ {x})
          IN  AfterProcessQueue(pq, MarkUploading(cs, inflight \ {x}, pq.inflight))
    /\ UNCHANGED <<status, abortedRef, runs, allDone, starting, timers>>
    /\ UNCHANGED <<serverVars, reported, plan>>

\* The chunk request rejected with retries left: arm the backoff timer.
ChunkRetry ==
    /\ \E x \in inflight :
          /\ x.retryCount < RETRY_LIMIT
          /\ inflight' = inflight \ {x}
          /\ timers' = timers \cup {[index |-> x.index, retryCount |-> x.retryCount,
                                       delay |-> BackoffDelay(x.retryCount), run |-> x.run,
                                       origin |-> x.origin]}
          /\ chunkStatus' = UpdateChunkState(chunkStatus, x.index, "ERROR")
    /\ UNCHANGED <<status, activeUploads, chunkQueue, abortedRef, runs, allDone, starting,
                   finalizing, finalizeCalls>>
    /\ UNCHANGED <<serverVars, reported, plan>>

\* The chunk request rejected with no retry left: permanent failure.
ChunkFailed ==
    /\ \E x \in inflight :
          /\ ~(x.retryCount < RETRY_LIMIT)
          /\ inflight' = inflight \ {x}
          /\ chunkStatus' = UpdateChunkState(chunkStatus, x.index, "ERROR")
    /\ status' = "FAILED"
    /\ abortedRef' = TRUE
    /\ UNCHANGED <<activeUploads, chunkQueue, runs, allDone, starting, timers, finalizing,
                   finalizeCalls>>
    /\ UNCHANGED <<serverVars, reported, plan>>

\* The backoff timer fires: activeUploads.current--, then uploadChunk(index, retryCount + 1).
TimerFires ==
    /\ \E t \in timers :
          /\ timers' = timers \ {t}
          /\ activeUploads' = (activeUploads - 1) + 1
          /\ inflight' = inflight \cup {[index |-> t.index, retryCount |-> t.retryCount + 1,
                                           run |-> t.run, origin |-> t.origin]}
          /\ chunkStatus' = UpdateChunkState(chunkStatus, t.index, "UPLOADING")
    /\ UNCHANGED <<status, chunkQueue, abortedRef, runs, allDone, starting, finalizing,
                   finalizeCalls>>
    /\ UNCHANGED <<serverVars, reported, plan>>

\* finalizeUpload: the request resolved.
FinalizeOk ==
    /\ finalizing > 0
    /\ finalizing' = finalizing - 1
    /\ status' = "COMPLETED"
    /\ UNCHANGED <<chunkStatus, activeUploads, chunkQueue, abortedRef, runs, allDone, starting,
                   inflight, timers, finalizeCalls>>
    /\ UNCHANGED <<serverVars, reported, plan>>

\* finalizeUpload: the request rejected.
FinalizeErr ==
    /\ finalizing > 0
    /\ finalizing' = finalizing - 1
    /\ status' = "FAILED"
    /\ UNCHANGED <<chunkStatus, activeUploads, chunkQueue, abortedRef, runs, allDone, starting,
                   inflight, timers, finalizeCalls>>
    /\ UNCHANGED <<serverVars, reported, plan>>

(* --------------------------- the chunk planner ------------------------ *)
\* Largest file size and chunk size the planner is run on.
MaxPlanSize == 6
MaxPlanChunk == 3

NoPlan == [size |-> 0, chunk |-> 0, done |-> {}, blob |-> <<>>]

\* A chunk count rounded down.
PlanTotalChunks_Floor(size, c) == size \div c

\* Math.ceil(file.size / CHUNK_SIZE) for chunk size c
PlanTotalChunks(size, c) == (size + c - 1) \div c

\* const start = index * CHUNK_SIZE; const end = Math.min(start + CHUNK_SIZE, file.size)
PlanStart(index, c) == index * c
PlanEnd(size, index, c) == Min(PlanStart(index, c) + c, size)

\* The file's bytes, and file.slice(start, end) of chunk `index`.
PlanBytes(size) == [i \in 1..size |-> i]
PlanChunk(size, index, c) ==
    Slice(PlanBytes(size), PlanStart(index, c), PlanEnd(size, index, c))

\* createWriteStream(filePath, {flags: 'r+', start: chunkIndex * CHUNK_SIZE})
ServerOffset(index, c) == index * c

\* The stream writes data from position pos on.
RECURSIVE WriteAt(_, _, _)
WriteAt(bytes, pos, data) ==
    IF data = <<>> THEN bytes
    ELSE WriteAt(WriteByte(bytes, pos, Head(data)), pos + 1, Tail(data))

\* One chunk of the plan is sent and written, in any order of the indices.
PlanUpload ==
    /\ \E i \in (0..(PlanTotalChunks(plan.size, plan.chunk) - 1)) \ plan.done :
          plan' = [plan EXCEPT
                     !.done = plan.done \cup {i},
                     !.blob = WriteAt(plan.blob, ServerOffset(i, plan.chunk),
                                      PlanChunk(plan.size, i, plan.chunk))]
    /\ UNCHANGED <<serverVars, clientVars>>

(* ------------------------------ the server ----------------------------- *)
\* sel: the rows of oldUploads; todo: those the loop has not reached yet.
IdleReaper == [pc |-> "idle", sel |-> {}, todo |-> {}, cur |-> UnknownId]

ServerInit ==
    /\ uploads = {}
    /\ chunks = EmptyBag
    /\ blobs = <<>>
    /\ req = [r \in Slots |-> NoReq]
    /\ last = NoLast
    /\ reaper = IdleReaper
    /\ nextId = 1
    /\ returned = <<>>

Init ==
    /\ ServerInit
    /\ ClientInit
    /\ plan = NoPlan

\* The step answers nobody.
Quiet == last' = NoLast
\* The step answers request q and frees its slot.
Answer(r, q, resp) ==
    /\ last' = [resp EXCEPT !.q = [NoReq EXCEPT !.kind = q.kind, !.uploadId = q.uploadId,
                                              !.idx = q.idx, !.fileHash = q.fileHash,
                                              !.totalSize = q.totalSize,
                                              !.totalChunks = q.totalChunks]]
    /\ req' = [req EXCEPT ![r] = NoReq]

(* ------------------------- POST /upload/handshake ---------------------- *)
\* The request bodies a client sends for file f: the planner's values, and
\* malformed ones (inconsistent count, non-positive values).
PlannerBody(f) == [totalSize |-> FileSize(f), totalChunks |-> TotalChunksOf(FileSize(f))]
HandshakeBodies(f) ==
    {PlannerBody(f)}
    \cup (IF f = "A" THEN {[totalSize |-> FileSize(f), totalChunks |-> 1],
                           [totalSize |-> 0, totalChunks |-> 0]}
          ELSE {})

InsertsPending == Cardinality({r \in Slots : req[r].pc = "hs_insert"})

\* The request arrives; SELECT * FROM uploads WHERE final_hash = ?; existing[0]
\* is any matching row.
Handshake(r, f, b, maxSessions) ==
    /\ Takes(r)
    /\   LET q == [NoReq EXCEPT !.kind = "handshake", !.fileHash = CalculateHash(f),
                                !.totalSize = b.totalSize, !.totalChunks = b.totalChunks]
             existing == {u \in uploads : u.final_hash = q.fileHash}
         IN  IF existing # {}
             THEN \E u \in existing :
                    req' = [req EXCEPT ![r] = [q EXCEPT !.pc = "hs_chunks", !.uploadId = u.id]]
             ELSE /\ nextId + InsertsPending <= maxSessions
                  /\ req' = [req EXCEPT ![r] = [q EXCEPT !.pc = "hs_insert"]]
    /\ Quiet
    /\ UNCHANGED <<uploads, chunks, blobs, reaper, nextId, returned>>
    /\ UNCHANGED <<clientVars, plan>>

\* A resume answer that leaves out the chunks query.
HsChunks_NoQuery(r) ==
    /\ req[r].pc = "hs_chunks"
    /\ Answer(r, req[r], [NoLast EXCEPT !.code = 200, !.msg = "RESUMING",
                                        !.uploadId = req[r].uploadId,
                                        !.uploadedChunks = {}])
    /\ UNCHANGED <<uploads, chunks, blobs, reaper, nextId, returned>>
    /\ UNCHANGED <<clientVars, plan>>

\* SELECT chunk_index FROM chunks WHERE upload_id = ? AND status = "UPLOADED";
\* answer RESUMING with the id found and the indices.
HsChunks(r) ==
    /\ req[r].pc = "hs_chunks"
    /\ Answer(r, req[r], [NoLast EXCEPT !.code = 200, !.msg = "RESUMING",
                                        !.uploadId = req[r].uploadId,
                                        !.uploadedChunks = SelectUploadedChunks(req[r].uploadId)])
    /\ UNCHANGED <<uploads, chunks, blobs, reaper, nextId, returned>>
    /\ UNCHANGED <<clientVars, plan>>

\* uuidv4(), INSERT INTO uploads (id, filename, total_size, total_chunks, final_hash);
\* status takes its default.  The table has a key on id only (the schema's unique
\* key is on file_hash, a column this statement does not write).
HsInsert(r) ==
    /\ req[r].pc = "hs_insert"
    /\ uploads' = uploads \cup
          {[id |-> nextId, final_hash |-> req[r].fileHash,
            total_size |-> req[r].totalSize, total_chunks |-> req[r].totalChunks,
            status |-> "UPLOADING", old |-> FALSE]}
    /\ nextId' = nextId + 1
    /\ Answer(r, req[r], [NoLast EXCEPT !.code = 200, !.msg = "NEW", !.uploadId = nextId])
    /\ UNCHANGED <<chunks, blobs, reaper, returned>>
    /\ UNCHANGED <<clientVars, plan>>

(* --------------------------- POST /upload/chunk ------------------------ *)
\* The ids a client can hold: one it never got from this server, or one a
\* handshake has handed out (its session may since have been removed).
KnownIds == 1..(nextId - 1)

\* A request without x-upload-id or with a non-numeric x-chunk-index.
ChunkBadHeaders(r) ==
    /\ Takes(r)
    /\ last' = [NoLast EXCEPT !.q = [NoReq EXCEPT !.kind = "chunk"],
                              !.code = 400, !.msg = "Missing headers"]
    /\ UNCHANGED <<uploads, chunks, blobs, req, reaper, nextId, returned>>
    /\ UNCHANGED <<clientVars, plan>>

\* The request arrives; idempotency check; then create the file if missing and
\* open the write stream at chunkIndex * CHUNK_SIZE.
Chunk(r, id, index, f) ==
    /\ Takes(r)
    /\    /\ HasRow(id) => CalculateHash(f) = Row(id).final_hash
          /\ LET q == [NoReq EXCEPT !.kind = "chunk", !.uploadId = id, !.idx = index,
                                    !.file = f]
                 existing == SelectChunk(id, index)
             IN  IF \E c \in existing : c.status = "UPLOADED"
                 THEN /\ last' = [NoLast EXCEPT !.q = [q EXCEPT !.file = "A"], !.code = 200,
                                                !.msg = "Chunk already received"]
                      /\ UNCHANGED <<blobs, req>>
                 ELSE /\ blobs' = IF id \in DOMAIN blobs THEN blobs ELSE (id :> <<>>) @@ blobs
                      /\ req' = [req EXCEPT ![r] = [q EXCEPT !.pc = "ch_write", !.fd = "live"]]
                      /\ Quiet
    /\ UNCHANGED <<uploads, chunks, reaper, nextId, returned>>
    /\ UNCHANGED <<clientVars, plan>>

\* req.pipe(writeStream): the next byte of the body lands at start + k.  A
\* stream whose file was unlinked after the open writes to the orphaned inode.
ChWrite(r) ==
    /\ req[r].pc = "ch_write"
    /\ LET data == ChunkPayload(req[r].file, req[r].idx)
           id == req[r].uploadId
           start == req[r].idx * CHUNK_SIZE
       IN  /\ req[r].k < Len(data)
           /\ blobs' = IF req[r].fd = "live"
                        THEN [blobs EXCEPT ![id] = WriteByte(blobs[id], start + req[r].k,
                                                             data[req[r].k + 1])]
                        ELSE blobs
           /\ req' = [req EXCEPT ![r].k = req[r].k + 1]
    /\ Quiet
    /\ UNCHANGED <<uploads, chunks, reaper, nextId, returned>>
    /\ UNCHANGED <<clientVars, plan>>

\* The storage write fails (disk full, I/O error): the stream is destroyed and
\* emits 'error'; 'finish' is not emitted.
StreamError(r) ==
    /\ req[r].pc = "ch_write"
    /\ req' = [req EXCEPT ![r].pc = "ch_error"]
    /\ Quiet
    /\ UNCHANGED <<uploads, chunks, blobs, reaper, nextId, returned>>
    /\ UNCHANGED <<clientVars, plan>>

\* An error listener that records the chunk before it answers.
ChWriteError_Commits(r) ==
    /\ req[r].pc = "ch_error"
    /\ chunks' = IF HasRow(req[r].uploadId)
                 THEN UpsertChunk(chunks, req[r].uploadId, req[r].idx) ELSE chunks
    /\ Answer(r, req[r], [NoLast EXCEPT !.code = 500, !.msg = "Write failed"])
    /\ UNCHANGED <<uploads, blobs, reaper, nextId, returned>>
    /\ UNCHANGED <<clientVars, plan>>

\* writeStream.on('error'): answer 500, nothing else.
ChWriteError(r) ==
    /\ req[r].pc = "ch_error"
    /\ Answer(r, req[r], [NoLast EXCEPT !.code = 500, !.msg = "Write failed"])
    /\ UNCHANGED <<uploads, chunks, blobs, reaper, nextId, returned>>
    /\ UNCHANGED <<clientVars, plan>>

\* 'finish': INSERT the chunk row, then answer.  The handler has no catch around
\* the query: when it is rejected (no parent row for the foreign key) the
\* request is never answered.
ChFinish(r) ==
    /\ req[r].pc = "ch_write"
    /\ req[r].k = Len(ChunkPayload(req[r].file, req[r].idx))
    /\ IF HasRow(req[r].uploadId)
       THEN /\ chunks' = UpsertChunk(chunks, req[r].uploadId, req[r].idx)
            /\ Answer(r, req[r], [NoLast EXCEPT !.code = 200, !.msg = "Chunk uploaded"])
       ELSE /\ Answer(r, req[r], NoLast)
            /\ UNCHANGED chunks
    /\ UNCHANGED <<uploads, blobs, reaper, nextId, returned>>
    /\ UNCHANGED <<clientVars, plan>>

(* -------------------------- POST /upload/finalize ---------------------- *)
\* The request arrives; SELECT status, total_chunks, final_hash FROM uploads.
Finalize(r, id) ==
    /\ Takes(r)
    /\   LET q == [NoReq EXCEPT !.kind = "finalize", !.uploadId = id]
         IN  IF ~HasRow(id)
             THEN /\ last' = [NoLast EXCEPT !.q = q, !.code = 404, !.msg = "Upload not found"]
                  /\ UNCHANGED req
             ELSE IF Row(id).status = "COMPLETED"
             THEN /\ last' = [NoLast EXCEPT !.q = q, !.code = 200, !.msg = "Already completed",
                                            !.hash = Row(id).final_hash]
                  /\ UNCHANGED req
             ELSE /\ req' = [req EXCEPT ![r] = [q EXCEPT !.pc = "fin_count",
                                                  !.totalChunks = Row(id).total_chunks]]
                  /\ Quiet
    /\ UNCHANGED <<uploads, chunks, blobs, reaper, nextId, returned>>
    /\ UNCHANGED <<clientVars, plan>>

\* A completeness check that accepts any count of at least total_chunks.
FinCount_AtLeast(r) ==
    /\ req[r].pc = "fin_count"
    /\ IF CountUploaded(req[r].uploadId) < req[r].totalChunks
       THEN Answer(r, req[r], [NoLast EXCEPT !.code = 400, !.msg = "Not all chunks uploaded yet"])
       ELSE req' = [req EXCEPT ![r].pc = "fin_process"] /\ Quiet
    /\ UNCHANGED <<uploads, chunks, blobs, reaper, nextId, returned>>
    /\ UNCHANGED <<clientVars, plan>>

\* SELECT COUNT(*) ...; if (count !== total_chunks) answer 400.
FinCount(r) ==
    /\ req[r].pc = "fin_count"
    /\ IF CountUploaded(req[r].uploadId) # req[r].totalChunks
       THEN Answer(r, req[r], [NoLast EXCEPT !.code = 400, !.msg = "Not all chunks uploaded yet"])
       ELSE req' = [req EXCEPT ![r].pc = "fin_process"] /\ Quiet
    /\ UNCHANGED <<uploads, chunks, blobs, reaper, nextId, returned>>
    /\ UNCHANGED <<clientVars, plan>>

\* UPDATE uploads SET status = ? WHERE id = ?
SetStatus(id, st) == {IF u.id = id THEN [u EXCEPT !.status = st] ELSE u : u \in uploads}

\* A. status PROCESSING, B. read the whole file and hash it.
FinProcess(r) ==
    /\ req[r].pc = "fin_process"
    /\ req[r].uploadId \in DOMAIN blobs
    /\ uploads' = SetStatus(req[r].uploadId, "PROCESSING")
    /\ req' = [req EXCEPT ![r].pc = "fin_complete",
                          ![r].hex = Sha256Hex(blobs[req[r].uploadId])]
    /\ Quiet
    /\ UNCHANGED <<chunks, blobs, reaper, nextId, returned>>
    /\ UNCHANGED <<clientVars, plan>>

\* readFileSync throws (file missing, or an I/O error): the catch block runs.
FinReadThrows(r) ==
    /\ req[r].pc = "fin_process"
    /\ uploads' = SetStatus(req[r].uploadId, "PROCESSING")
    /\ req' = [req EXCEPT ![r].pc = "fin_failed"]
    /\ Quiet
    /\ UNCHANGED <<chunks, blobs, reaper, nextId, returned>>
    /\ UNCHANGED <<clientVars, plan>>

\* D. status COMPLETED, answer with the hash just computed.
FinComplete(r) ==
    /\ req[r].pc = "fin_complete"
    /\ uploads' = SetStatus(req[r].uploadId, "COMPLETED")
    /\ Answer(r, req[r], [NoLast EXCEPT !.code = 200, !.msg = "Upload completed successfully",
                                        !.hash = req[r].hex])
    /\ returned' = IF req[r].uploadId \in DOMAIN returned THEN returned
                   ELSE (req[r].uploadId :> req[r].hex) @@ returned
    /\ UNCHANGED <<chunks, blobs, reaper, nextId>>
    /\ UNCHANGED <<clientVars, plan>>

\* A catch block that answers without the status update.
FinFailed_NoUpdate(r) ==
    /\ req[r].pc = "fin_failed"
    /\ Answer(r, req[r], [NoLast EXCEPT !.code = 500, !.msg = "Finalize Error"])
    /\ UNCHANGED <<uploads, chunks, blobs, reaper, nextId, returned>>
    /\ UNCHANGED <<clientVars, plan>>

\* catch: status FAILED, answer 500.
FinFailed(r) ==
    /\ req[r].pc = "fin_failed"
    /\ uploads' = SetStatus(req[r].uploadId, "FAILED")
    /\ Answer(r, req[r], [NoLast EXCEPT !.code = 500, !.msg = "Finalize Error"])
    /\ UNCHANGED <<chunks, blobs, reaper, nextId, returned>>
    /\ UNCHANGED <<clientVars, plan>>

(* ------------------------------ cleanup job ---------------------------- *)
\* created_at < now - ONE_DAY_MS becomes true of a session; older rows first.
Age ==
    /\ \E u \in uploads :
          /\ ~u.old
          /\ \A v \in uploads : v.id < u.id => v.old
          /\ uploads' = (uploads \ {u}) \cup {[u EXCEPT !.old = TRUE]}
    /\ Quiet
    /\ UNCHANGED <<chunks, blobs, req, reaper, nextId, returned>>
    /\ UNCHANGED <<clientVars, plan>>

\* SELECT id FROM uploads WHERE status != 'COMPLETED' AND created_at < ?
ReaperSelect ==
    /\ reaper.pc = "idle"
    /\ LET oldUploads == {u.id : u \in {x \in uploads : x.status # "COMPLETED" /\ x.old}}
       IN  reaper' = IF oldUploads = {} THEN reaper
                     ELSE [pc |-> "unlink", sel |-> oldUploads, todo |-> oldUploads,
                           cur |-> UnknownId]
    /\ Quiet
    /\ UNCHANGED <<uploads, chunks, blobs, req, nextId, returned>>
    /\ UNCHANGED <<clientVars, plan>>

RemoveKey(f, k) == [x \in (DOMAIN f) \ {k} |-> f[x]]

\* The next row of the loop: unlink its file if it exists.
ReaperUnlink ==
    /\ reaper.pc = "unlink"
    /\ \E id \in reaper.todo :
          /\ reaper' = [reaper EXCEPT !.pc = "delete", !.cur = id]
          /\ IF id \in DOMAIN blobs
             THEN /\ blobs' = RemoveKey(blobs, id)
                  /\ req' = [r \in Slots |->
                               IF req[r].uploadId = id /\ req[r].fd = "live"
                               THEN [req[r] EXCEPT !.fd = "orphan"] ELSE req[r]]
             ELSE UNCHANGED <<blobs, req>>
    /\ Quiet
    /\ UNCHANGED <<uploads, chunks, nextId, returned>>
    /\ UNCHANGED <<clientVars, plan>>

\* DELETE FROM uploads WHERE id = ?  (chunk rows cascade)
ReaperDelete ==
    /\ reaper.pc = "delete"
    /\ uploads' = {u \in uploads : u.id # reaper.cur}
    /\ chunks' = LET keep == {c \in ChunkRows : c.upload_id # reaper.cur}
                 IN  [c \in keep |-> chunks[c]]
    /\ reaper' = IF reaper.todo \ {reaper.cur} = {}
                  THEN IdleReaper
                  ELSE [reaper EXCEPT !.pc = "unlink", !.todo = reaper.todo \ {reaper.cur},
                                      !.cur = UnknownId]
    /\ Quiet
    /\ UNCHANGED <<blobs, req, nextId, returned>>
    /\ UNCHANGED <<clientVars, plan>>

(* ------------------------------- crash --------------------------------- *)
\* The server process dies: every handler and the cleanup job in progress are
\* lost, the database and the uploads directory stay.
Crash ==
    /\ (\E r \in Slots : ~Free(r)) \/ reaper.pc # "idle"
    /\ req' = [r \in Slots |-> NoReq]
    /\ reaper' = IdleReaper
    /\ Quiet
    /\ UNCHANGED <<uploads, chunks, blobs, nextId, returned>>
    /\ UNCHANGED <<clientVars, plan>>

(* --------------------------- specifications --------------------------- *)
\* Requests served one at a time, interleaved with the cleanup job and crashes.
Next ==
    \/ \E f \in Files : \E b \in HandshakeBodies(f) : Handshake(1, f, b, MaxSessions)
    \/ HsChunks(1)
    \/ HsInsert(1)
    \/ ChunkBadHeaders(1)
    \/ \E id \in KnownIds, index \in 0..MaxIndex : HasRow(id) /\ Chunk(1, id, index, "A")
    \/ \E id \in KnownIds \cup {UnknownId} : ~HasRow(id) /\ Chunk(1, id, 0, "B")
    \/ ChWrite(1)
    \/ StreamError(1)
    \/ ChWriteError(1)
    \/ ChFinish(1)
    \/ \E id \in KnownIds \cup {UnknownId} : Finalize(1, id)
    \/ FinCount(1)
    \/ FinProcess(1)
    \/ FinReadThrows(1)
    \/ FinComplete(1)
    \/ FinFailed(1)
    \/ Age
    \/ ReaperSelect
    \/ ReaperUnlink
    \/ ReaperDelete
    \/ Crash

Spec == Init /\ [][Next]_vars

\* Two requests about file A served concurrently.
RaceNext ==
    \/ \E r \in Slots : Handshake(r, "A", PlannerBody("A"), RaceSessions)
    \/ \E r \in Slots : HsChunks(r)
    \/ \E r \in Slots : HsInsert(r)
    \/ \E r \in Slots : \E id \in KnownIds, index \in 0..(MaxIndex - 1) : Chunk(r, id, index, "A")
    \/ \E r \in Slots : ChWrite(r)
    \/ \E r \in Slots : ChFinish(r)
    \/ \E r \in Slots : \E id \in KnownIds : Finalize(r, id)
    \/ \E r \in Slots : FinCount(r)
    \/ \E r \in Slots : FinProcess(r)
    \/ \E r \in Slots : FinComplete(r)

RaceSpec == Init /\ [][RaceNext]_vars

\* The upload coordinator against a server whose answers are arbitrary.
ClientNext ==
    \/ StartUpload
    \/ HashDone
    \/ HandshakeOk
    \/ HandshakeErr
    \/ ChunkOk
    \/ ChunkRetry
    \/ ChunkFailed
    \/ TimerFires
    \/ FinalizeOk
    \/ FinalizeErr

ClientSpec == Init /\ [][ClientNext]_vars

\* A first run in which no chunk runs out of retries and the handshake is
\* answered.  Every pending promise settles and every armed timer fires.
FreshStart == runs = 0 /\ StartUpload

FreshNext ==
    \/ FreshStart
    \/ HashDone
    \/ HandshakeOk
    \/ ChunkOk
    \/ ChunkRetry
    \/ TimerFires
    \/ FinalizeOk

FreshSpec ==
    /\ Init
    /\ [][FreshNext]_vars
    /\ WF_vars(HashDone)
    /\ WF_vars(HandshakeOk)
    /\ WF_vars(ChunkOk)
    /\ WF_vars(TimerFires)
    /\ WF_vars(FinalizeOk)

\* The planner run on every file size and chunk size within the bounds.
PlanInit ==
    /\ ServerInit
    /\ ClientInit
    /\ plan \in {[size |-> sz, chunk |-> c, done |-> {}, blob |-> <<>>] :
                    sz \in 1..MaxPlanSize, c \in 1..MaxPlanChunk}

PlanNext == PlanUpload

PlannerSpec == PlanInit /\ [][PlanNext]_vars

(* ------------------------------ properties ---------------------------- *)
\* C1: at most CONCURRENCY_LIMIT chunk requests are issued and not yet
\* answered, whatever the successes, failures, retries and timer firings; the
\* requests and the armed timers together never exceed the counter.
C1_InFlightBound ==
    /\ Cardinality(inflight) <= CONCURRENCY_LIMIT
    /\ Cardinality(inflight) + Cardinality(timers) <= activeUploads
    /\ activeUploads <= CONCURRENCY_LIMIT

\* Three requests in flight, one of them a retry, with chunks still queued.
C1_Witness ==
    /\ Cardinality(inflight) = CONCURRENCY_LIMIT
    /\ \E x \in inflight : x.retryCount > 0
    /\ Len(chunkQueue) > 0

\* C2: a handshake answered RESUMING carries the id of a session with the
\* request's fingerprint and exactly the indices whose chunk row is UPLOADED
\* when it answers; a handshake answered NEW leaves no other session with the
\* request's fingerprint.
C2_HandshakeReportsUploaded ==
    /\ (last.q.kind = "handshake" /\ last.msg = "RESUMING") =>
          /\ last.code = 200
          /\ \A u \in uploads : u.id = last.uploadId => u.final_hash = last.q.fileHash
          /\ last.uploadedChunks \subseteq 0..MaxIndex
          /\ \A i \in 0..MaxIndex :
                i \in last.uploadedChunks <=>
                   \E c \in BagToSet(chunks) : /\ c.upload_id = last.uploadId
                                               /\ c.chunk_index = i
                                               /\ c.status = "UPLOADED"
    /\ (last.q.kind = "handshake" /\ last.msg = "NEW") =>
          \A u \in uploads : u.final_hash = last.q.fileHash => u.id = last.uploadId

\* A resume answer that reports chunk 1 and not chunk 0.
C2_Witness ==
    /\ last.q.kind = "handshake"
    /\ last.msg = "RESUMING"
    /\ last.uploadedChunks = {1}

\* C3: whatever the interleaving of concurrent handshakes with one
\* fingerprint, at most one session row has that fingerprint and every answer
\* carries the id of that row.
C3_OneSessionPerFingerprint ==
    /\ \A u, v \in uploads : u.final_hash = v.final_hash => u.id = v.id
    /\ last.q.kind = "handshake" =>
          \A u \in uploads : u.final_hash = last.q.fileHash => u.id = last.uploadId

\* C4: a handshake whose totalSize or totalChunks is not positive, or whose
\* totalChunks is not ceil(totalSize / CHUNK_SIZE), is answered with an error,
\* and no session row holds such values.
C4_MalformedHandshakeRejected ==
    /\ (/\ last.q.kind = "handshake"
        /\ \/ last.q.totalSize <= 0
           \/ last.q.totalChunks <= 0
           \/ last.q.totalChunks # TotalChunksOf(last.q.totalSize))
          => last.code >= 400
    /\ \A u \in uploads : /\ u.total_size > 0
                          /\ u.total_chunks = TotalChunksOf(u.total_size)

\* C5: in every reachable state, a chunk row with status UPLOADED exists only
\* if the session's blob holds the bytes of that chunk at index * CHUNK_SIZE.
C5_UploadedOnlyWithBytes ==
    \A c \in BagToSet(chunks) : \A u \in uploads :
        (c.status = "UPLOADED" /\ u.id = c.upload_id) =>
            LET f == CHOOSE g \in Files : CalculateHash(g) = u.final_hash
                data == ChunkPayload(f, c.chunk_index)
                blob == IF u.id \in DOMAIN blobs THEN blobs[u.id] ELSE <<>>
                start == c.chunk_index * CHUNK_SIZE
            IN  \A k \in 1..Len(data) :
                    start + k <= Len(blob) /\ blob[start + k] = data[k]

\* C6: each (upload_id, chunk_index) has one chunk row at most, after any
\* sequential or concurrent duplicate submissions; a chunk request answered
\* while its row is already UPLOADED reports success and changes neither the
\* chunk rows nor the blobs; and no step changes the blob bytes of an index
\* whose row is UPLOADED.
C6_DuplicateIdempotent ==
    /\ [](\A c, d \in BagToSet(chunks) :
             /\ CopiesIn(c, chunks) = 1
             /\ (c.upload_id = d.upload_id /\ c.chunk_index = d.chunk_index) => c = d)
    /\ [][/\ (/\ last'.q.kind = "chunk"
              /\ \E c \in BagToSet(chunks) : /\ c.upload_id = last'.q.uploadId
                                             /\ c.chunk_index = last'.q.idx
                                             /\ c.status = "UPLOADED")
             => (last'.code = 200 /\ chunks' = chunks /\ blobs' = blobs)
          /\ \A c \in BagToSet(chunks) :
                c.status = "UPLOADED" =>
                   \A k \in 1..CHUNK_SIZE :
                      LET pos == c.chunk_index * CHUNK_SIZE + k
                      IN  (c.upload_id \in DOMAIN blobs /\ pos <= Len(blobs[c.upload_id]))
                             => /\ c.upload_id \in DOMAIN blobs'
                                /\ pos <= Len(blobs'[c.upload_id])
                                /\ blobs'[c.upload_id][pos] = blobs[c.upload_id][pos]
         ]_vars

\* A re-submission answered "already received" while a concurrent duplicate of
\* the same chunk is still being written.
C6_Witness ==
    /\ last.msg = "Chunk already received"
    /\ \E r \in Slots : /\ req[r].pc = "ch_write"
                        /\ req[r].uploadId = last.q.uploadId
                        /\ req[r].idx = last.q.idx
                        /\ req[r].k > 0

\* C7: a chunk request whose x-upload-id matches no session is answered 404
\* and none of its bytes reach the uploads directory.
C7_UnknownSessionRejected ==
    /\ UnknownId \notin DOMAIN blobs
    /\ (/\ last.q.kind = "chunk"
        /\ last.q.uploadId = UnknownId
        /\ last.msg # "Missing headers") => last.code = 404

\* C8: a chunk request whose index is at least the session's total_chunks is
\* answered with an error, and no chunk row has such an index (sessions made
\* by a well-formed handshake).
C8_OutOfRangeRejected ==
    \A u \in uploads :
        (u.total_size > 0 /\ u.total_chunks = TotalChunksOf(u.total_size)) =>
            /\ \A c \in BagToSet(chunks) :
                  c.upload_id = u.id => c.chunk_index < u.total_chunks
            /\ (/\ last.q.kind = "chunk"
                /\ last.q.uploadId = u.id
                /\ last.q.idx >= u.total_chunks) => last.code >= 400

\* C9: once the storage write of a chunk request has failed, no step adds a
\* chunk row, and the request ends with a 500 answer.
C9_WriteFailureSurfaced ==
    [][\A r \in Slots :
          req[r].pc = "ch_error" =>
             /\ BagToSet(chunks') \subseteq BagToSet(chunks)
             /\ \A c \in BagToSet(chunks') : CopiesIn(c, chunks') <= CopiesIn(c, chunks)
             /\ req'[r].pc \in {"ch_error", "idle"}
             /\ last'.q.kind = "chunk" =>
                   /\ last'.code = 500
                   /\ last'.q.uploadId = req[r].uploadId
                   /\ last'.q.idx = req[r].idx
      ]_vars

\* A "Write failed" answer after part of the chunk reached the blob, with no
\* row for the chunk.
C9_Witness ==
    /\ last.code = 500
    /\ last.msg = "Write failed"
    /\ last.q.uploadId \in DOMAIN blobs
    /\ Len(blobs[last.q.uploadId]) > 0
    /\ ~\E c \in BagToSet(chunks) : /\ c.upload_id = last.q.uploadId
                                    /\ c.chunk_index = last.q.idx

\* C10: a finalize that completes a session (made by a well-formed handshake)
\* answers with the digest of the chunk payloads 0..total_chunks-1 joined in
\* index order.
C10_DigestOfConcatenation ==
    \A u \in uploads :
        (/\ last.q.kind = "finalize"
         /\ last.msg = "Upload completed successfully"
         /\ last.q.uploadId = u.id
         /\ u.total_size > 0
         /\ u.total_chunks = TotalChunksOf(u.total_size)) =>
            LET f == CHOOSE g \in Files : CalculateHash(g) = u.final_hash
                RECURSIVE Join(_)
                Join(i) == IF i >= u.total_chunks THEN <<>>
                           ELSE ChunkPayload(f, i) \o Join(i + 1)
            IN  last.hash = Sha256Hex(Join(0))

\* C11: a finalize on a session that is already COMPLETED (made by a
\* well-formed handshake) answers with the hash that the call which completed
\* the session answered.
C11_SecondFinalizeSameHash ==
    \A u \in uploads :
        (/\ last.q.kind = "finalize"
         /\ last.msg = "Already completed"
         /\ last.q.uploadId = u.id
         /\ u.id \in DOMAIN returned
         /\ u.total_size > 0
         /\ u.total_chunks = TotalChunksOf(u.total_size))
            => last.hash = returned[u.id]

\* C12: of the finalize calls running on one session, at most one is past the
\* status change to PROCESSING (reading the blob, or about to mark COMPLETED).
C12_SingleFinalizer ==
    \A r1, r2 \in Slots :
        (/\ req[r1].pc \in {"fin_complete", "fin_failed"}
         /\ req[r2].pc \in {"fin_complete", "fin_failed"}
         /\ req[r1].uploadId = req[r2].uploadId) => r1 = r2

\* C13: while a finalize is at its completeness check and the session's number
\* of UPLOADED chunk rows differs from total_chunks, the call goes no further;
\* its answer is the 400 "not all chunks" error and the step that answers
\* changes no session row, chunk row or blob.
C13_IncompleteRejected ==
    [][\A r \in Slots : \A u \in uploads :
          (/\ req[r].pc = "fin_count"
           /\ u.id = req[r].uploadId
           /\ u.total_chunks = req[r].totalChunks
           /\ Cardinality({c \in BagToSet(chunks) :
                             c.upload_id = u.id /\ c.status = "UPLOADED"}) # u.total_chunks)
             => /\ req'[r].pc \in {"fin_count", "idle"}
                /\ last'.q.kind = "finalize" =>
                      /\ last'.code = 400
                      /\ last'.msg = "Not all chunks uploaded yet"
                      /\ uploads' = uploads
                      /\ chunks' = chunks
                      /\ blobs' = blobs
      ]_vars

\* A finalize refused while some but not all chunks are uploaded; the session
\* is still UPLOADING.
C13_Witness ==
    /\ last.q.kind = "finalize"
    /\ last.code = 400
    /\ \E u \in uploads :
          /\ u.id = last.q.uploadId
          /\ u.status = "UPLOADING"
          /\ LET n == Cardinality({c \in BagToSet(chunks) : c.upload_id = u.id})
             IN  0 < n /\ n < u.total_chunks

\* C14: a session (made by a well-formed handshake) is COMPLETED only if each
\* index of 0..total_chunks-1 has an UPLOADED chunk row.
C14_CompletedOnlyWithCoverage ==
    \A u \in uploads :
        (/\ u.status = "COMPLETED"
         /\ u.total_size > 0
         /\ u.total_chunks = TotalChunksOf(u.total_size)) =>
            \A i \in 0..(u.total_chunks - 1) :
                \E c \in BagToSet(chunks) : /\ c.upload_id = u.id
                                            /\ c.chunk_index = i
                                            /\ c.status = "UPLOADED"

\* C15: the cleanup job selects the sessions that are older than the
\* threshold and not COMPLETED; when a sweep ends, no selected session has a
\* row, a chunk row or a blob; and no step removes the row or the blob of a
\* session outside the selection.
C15_SweepRemovesExactlyStale ==
    [][/\ (reaper.pc = "idle" /\ reaper'.pc # "idle") =>
             reaper'.sel = {u.id : u \in {x \in uploads : x.old /\ x.status # "COMPLETED"}}
       /\ (reaper.pc = "delete" /\ reaper'.pc = "idle" /\ uploads' # uploads) =>
             \A id \in reaper.sel :
                /\ ~\E u \in uploads' : u.id = id
                /\ ~\E c \in BagToSet(chunks') : c.upload_id = id
                /\ id \notin DOMAIN blobs'
       /\ \A u \in uploads :
             u.id \notin reaper.sel =>
                /\ \E v \in uploads' : v.id = u.id
                /\ u.id \in DOMAIN blobs => u.id \in DOMAIN blobs'
      ]_vars

\* C16: no step removes the row or the blob of a session (made by a
\* well-formed handshake) whose status is COMPLETED, whatever the cleanup job
\* selected before.
C16_CompletedNeverReaped ==
    [][\A u \in uploads :
          (/\ u.status = "COMPLETED"
           /\ u.total_size > 0
           /\ u.total_chunks = TotalChunksOf(u.total_size)) =>
             /\ \E v \in uploads' : v.id = u.id
             /\ u.id \in DOMAIN blobs => u.id \in DOMAIN blobs'
      ]_vars

\* C17: a chunk is attempted at most RETRY_LIMIT times in all: no request or
\* timer belongs to an attempt after the RETRY_LIMIT-th.
C17_AtMostThreeAttempts ==
    /\ \A x \in inflight : x.retryCount + 1 <= RETRY_LIMIT
    /\ \A t \in timers : t.retryCount + 2 <= RETRY_LIMIT

\* C18: the backoff delay armed after the n-th failure of a chunk
\* (n = 0, 1, 2) is 2000 ms * 2^n.
C18_BackoffDoubling ==
    \A t \in timers :
        /\ t.retryCount = 0 => t.delay = 2000
        /\ t.retryCount = 1 => t.delay = 4000
        /\ t.retryCount = 2 => t.delay = 8000

\* C19: while the run is halted by a permanent chunk failure, no step issues
\* a chunk request.
C19_NoDispatchAfterFailure ==
    [][(abortedRef /\ abortedRef') => inflight' \subseteq inflight]_vars

\* C20: a step that invokes finalizeUpload leaves the queue empty, no request
\* in flight, no retry timer armed, the run not halted and every chunk of the
\* file UPLOADED.
C20_FinalizeOnlyWhenDone ==
    [][finalizeCalls' > finalizeCalls =>
          /\ chunkQueue' = <<>>
          /\ inflight' = {}
          /\ timers' = {}
          /\ ~abortedRef'
          /\ \A i \in Indices : i \in DOMAIN chunkStatus' /\ chunkStatus'[i] = "UPLOADED"
      ]_vars

\* finalizeUpload has been invoked in the first run and its request is pending.
C20_Witness ==
    /\ finalizeCalls > 0
    /\ finalizing > 0
    /\ runs = 1
    /\ chunkQueue = <<>>
    /\ activeUploads = 0

\* C21: in a first run where no chunk runs out of retries, whatever the order
\* of the answers, finalizeUpload is invoked eventually, and never twice.
C21_FreshRunFinalizesOnce ==
    /\ [](finalizeCalls <= 1)
    /\ (runs = 1) ~> (finalizeCalls = 1)

\* finalizeUpload invoked once, after a first run that had to transfer every
\* chunk.
C21_Witness ==
    /\ finalizeCalls = 1
    /\ runs = 1
    /\ 1 \in DOMAIN reported
    /\ reported[1] = {}
    /\ \A i \in Indices : chunkStatus[i] = "UPLOADED"

\* C22: in a restarted upload that still carries a slot count left by a
\* permanent chunk failure and had chunks to transfer, once every chunk is
\* UPLOADED and nothing is queued, in flight or in backoff, finalizeUpload has
\* been invoked.
C22_RestartFinalizes ==
    (/\ runs > 1
     /\ runs \in DOMAIN reported
     /\ reported[runs] # Indices
     /\ status = "UPLOADING"
     /\ activeUploads > 0
     /\ chunkQueue = <<>>
     /\ inflight = {}
     /\ timers = {}
     /\ \A i \in Indices : chunkStatus[i] = "UPLOADED")
        => finalizing > 0

C24_BackoffHoldsNoSlot ==
    (/\ timers # {}
     /\ Len(chunkQueue) > 0
     /\ ~abortedRef
     /\ runs = 1)
        => Cardinality(inflight) = CONCURRENCY_LIMIT

\* C25: the status of a session (made by a well-formed handshake) only ever
\* changes UPLOADING to PROCESSING, PROCESSING to COMPLETED or PROCESSING to
\* FAILED.
C25_StatusTransitions ==
    [][\A u \in uploads : \A v \in uploads' :
          (/\ u.id = v.id
           /\ u.status # v.status
           /\ u.total_size > 0
           /\ u.total_chunks = TotalChunksOf(u.total_size))
             => <<u.status, v.status>> \in {<<"UPLOADING", "PROCESSING">>,
                                             <<"PROCESSING", "COMPLETED">>,
                                             <<"PROCESSING", "FAILED">>}
      ]_vars

\* C26: once the blob read of a finalize has failed, the call never marks the
\* session COMPLETED; it ends with a 500 answer and the session's status is
\* then FAILED.
C26_ReadFailureMarksFailed ==
    [][\A r \in Slots :
          req[r].pc = "fin_failed" =>
             /\ req'[r].pc \in {"fin_failed", "idle"}
             /\ \A v \in uploads' : v.id = req[r].uploadId => v.status # "COMPLETED"
             /\ last'.q.kind = "finalize" =>
                   /\ last'.code = 500
                   /\ last'.q.uploadId = req[r].uploadId
                   /\ \A v \in uploads' : v.id = req[r].uploadId => v.status = "FAILED"
      ]_vars

\* A finalize answered 500 after its read failed, the session left FAILED with
\* all its chunk rows.
C26_Witness ==
    /\ last.q.kind = "finalize"
    /\ last.code = 500
    /\ \E u \in uploads : /\ u.id = last.q.uploadId
                          /\ u.status = "FAILED"
                          /\ u.total_chunks > 0
                          /\ \E c \in BagToSet(chunks) : c.upload_id = u.id

\* C27: a session's final_hash is present exactly when its status is
\* COMPLETED, and is then the hash the completing finalize answered.
C27_FinalHashIffCompleted ==
    \A u \in uploads :
        /\ u.final_hash # NoHash <=> u.status = "COMPLETED"
        /\ (u.status = "COMPLETED" /\ u.id \in DOMAIN returned)
              => u.final_hash = returned[u.id]

\* C28: for the file size and chunk size of the plan, the chunk count is the
\* ceiling of size / chunk; the ranges [start, end) of the chunks are
\* non-empty, lie in the file and each byte of the file is in exactly one;
\* each chunk sent is in the assembled file at its own position, and once all
\* are sent the assembled file is the file.
C28_PlannerCoversFile ==
    LET sz == plan.size
        c == plan.chunk
        n == PlanTotalChunks(sz, c)
    IN  /\ n * c >= sz
        /\ (n - 1) * c < sz
        /\ \A i \in 0..(n - 1) :
              /\ PlanStart(i, c) < PlanEnd(sz, i, c)
              /\ PlanEnd(sz, i, c) <= sz
              /\ Len(PlanChunk(sz, i, c)) = PlanEnd(sz, i, c) - PlanStart(i, c)
              /\ ServerOffset(i, c) = PlanStart(i, c)
        /\ \A b \in 0..(sz - 1) :
              Cardinality({i \in 0..(n - 1) :
                             PlanStart(i, c) <= b /\ b < PlanEnd(sz, i, c)}) = 1
        /\ \A i \in plan.done :
              \A b \in PlanStart(i, c)..(PlanEnd(sz, i, c) - 1) :
                 b + 1 <= Len(plan.blob) /\ plan.blob[b + 1] = b + 1
        /\ plan.done = 0..(n - 1) => plan.blob = PlanBytes(sz)

\* A file of three chunks or more with a short last chunk, all chunks sent.
C28_Witness ==
    /\ PlanTotalChunks(plan.size, plan.chunk) >= 3
    /\ plan.size % plan.chunk # 0
    /\ plan.done = 0..(PlanTotalChunks(plan.size, plan.chunk) - 1)

\* C29: no step changes the status of a session that is COMPLETED.
C29_CompletedIsTerminal ==
    [][\A u \in uploads : \A v \in uploads' :
          (u.id = v.id /\ u.status = "COMPLETED") => v.status = "COMPLETED"
      ]_vars

\* C30: activeUploads is the number of requests in flight and chunks in
\* backoff; it is 0 when there are none, and never negative.
C30_CounterMatchesSlots ==
    /\ activeUploads >= 0
    /\ activeUploads = Cardinality(inflight) + Cardinality(timers)
    /\ (inflight = {} /\ timers = {}) => activeUploads = 0

\* C31: no two chunk requests for the same index are in flight at once, and no
\* index is in the queue while a request for it is in flight or its retry
\* timer is pending, restarts after a failure included.
C31_OneTransferPerIndex ==
    /\ \A x \in inflight : \A y \in inflight : x.index = y.index => x = y
    /\ \A i \in 1..Len(chunkQueue) :
          /\ \A x \in inflight : x.index # chunkQueue[i]
          /\ \A t \in timers : t.index # chunkQueue[i]

\* C32: every file in the uploads directory belongs to a session that has a
\* row in the uploads table.
C32_BlobHasSession ==
    \A id \in DOMAIN blobs : HasRow(id)

\* C33: a chunk request for an id a handshake handed out and an index of the
\* file, once its handler is through, has been sent a response.
C33_ChunkAnswered ==
    (last.q.kind = "chunk" /\ last.q.uploadId \in KnownIds /\ last.q.idx < MaxIndex)
        => last.code # 0
====
